---- MODULE Spec2Model ----
(***************************************************************************)
(* RouterInitializer of packages/router/src/router_module.ts: the two      *)
(* phase protocol (appInitializer, bootstrapListener, ngOnDestroy) that    *)
(* synchronises the application bootstrap with the router's initial        *)
(* navigation, together with the parts of its environment it talks to:     *)
(* the LOCATION_INITIALIZED promise, the injector, ApplicationRef's list   *)
(* of root components and the Router (hooks.afterPreactivation,            *)
(* initialNavigation, setUpLocationChangeListener).                        *)
(*                                                                         *)
(* JavaScript runs each callback to completion, so every action below is   *)
(* one whole synchronous run of a method or of a promise continuation.     *)
(* The order of the calls made inside one run is kept in per-run logs.     *)
(***************************************************************************)
EXTENDS Integers, Sequences, FiniteSets, TLC

\* ---------------------------------------------------------------- bounds
MaxInitCalls == 1   \* appInitializer() invocations explored
MaxRoots == 2       \* root components the host composes
MaxPostCalls == 2   \* bootstrapListener() invocations explored
MaxNavs == 2        \* navigations the Router starts

InitIds == 1..MaxInitCalls
Roots == 1..MaxRoots
NavIds == 1..MaxNavs

\* ------------------------------------------------- configuration values
\* ExtraOptions.initialNavigation as it is found at run time: the three
\* values of the InitialNavigation type, the property left out, and a value
\* outside the type ('enabled', which the option's own comment still lists).
RecognizedPolicies == {"disabled", "enabledBlocking", "enabledNonBlocking"}
Policies == RecognizedPolicies \cup {"undefined", "enabled"}

VARIABLES
  policy,          \* opts.initialNavigation
  locInit,         \* LOCATION_INITIALIZED: "absent", "pending" or "settled"
  initNavigation,  \* RouterInitializer.initNavigation
  destroyed,       \* RouterInitializer.destroyed
  gate,            \* resultOfPreactivationDone: "pending" or "fired" (stopped)
  gateEmits,       \* values resultOfPreactivationDone has emitted
  pc,              \* per appInitializer() call: "idle", "awaiting", "done"
  promise,         \* per call: the promise appInitializer() returned
  preLog,          \* per call: what the call and its continuation did, in order
  hook,            \* router.hooks.afterPreactivation: 0 default, i set by call i
  components,      \* ApplicationRef.components
  lastPost,        \* the latest bootstrapListener() run: its root, the calls it
                   \* made, whether its next() made the subject emit
  postRuns,        \* bootstrapListener() runs made so far
  firstRuns,       \* those of them made with ApplicationRef.components[0]
  navCalls,        \* router.initialNavigation() calls made so far
  nav,             \* per navigation: "none", "started", then what the hook gave
                   \* it: "passed" (default hook), "noop" (of(null)), "paused"
                   \* (live subject), "released", "sawComplete" (stopped subject)
  locListener      \* the Router's location change listener is installed

vars == <<policy, locInit, initNavigation, destroyed, gate, gateEmits, pc,
          promise, preLog, hook, components, lastPost,
          postRuns, firstRuns, navCalls, nav, locListener>>

coordinator == <<initNavigation, destroyed, gate, gateEmits>>
engine == <<hook, nav, locListener>>
post == <<lastPost, postRuns, firstRuns>>

\* ------------------------------------------------------- derived state
PreCalls == Cardinality({i \in InitIds : pc[i] # "idle"})
NavigationId == Cardinality({n \in NavIds : nav[n] # "none"})

Init ==
  /\ policy \in Policies
  /\ locInit \in {"absent", "pending", "settled"}
  /\ initNavigation = FALSE
  /\ destroyed = FALSE
  /\ gate = "pending"
  /\ gateEmits = 0
  /\ pc = [i \in InitIds |-> "idle"]
  /\ promise = [i \in InitIds |-> "none"]
  /\ preLog = [i \in InitIds |-> <<>>]
  /\ hook = 0
  /\ components = <<>>
  /\ lastPost = [root |-> 0, ops |-> <<>>, emitted |-> FALSE]
  /\ postRuns = 0
  /\ firstRuns = 0
  /\ navCalls = 0
  /\ nav = [n \in NavIds |-> "none"]
  /\ locListener = FALSE

\* r is the first root component the host composed
IsFirstRoot(r) == Len(components) > 0 /\ components[1] = r

\* ------------------------------------------------------- the environment
\* injector.get: the comment at line 547 says the lookups fail once the
\* injector is destroyed; ngOnDestroy is run by that destruction but is also
\* an ordinary public method, so after it a lookup may fail or succeed.
InjectorGetOutcomes == IF destroyed THEN {TRUE, FALSE} ELSE {TRUE}

\* Router.initialNavigation(): installs the location change listener and
\* navigates to the current URL unless a navigation was already scheduled.
RouterInitialNavigation(navs) ==
  IF \A n \in NavIds : navs[n] = "none"
  THEN [navs EXCEPT ![1] = "started"]
  ELSE navs

\* SubjectNextNavs with the next() call of line 601 left out
SubjectNextNavsOmitted(navs) == navs

\* Subject.next: a stopped subject emits nothing; every subscriber of a live
\* one receives the value, which lets a navigation waiting on it go on.
SubjectNextNavs(navs) ==
  IF gate = "pending"
  THEN [n \in NavIds |-> IF navs[n] = "paused" THEN "released" ELSE navs[n]]
  ELSE navs

SubjectNextEmits == IF gate = "pending" THEN gateEmits + 1 ELSE gateEmits

\* SubjectComplete with the complete() call of line 602 left out
SubjectCompleteOmitted == gate

\* Subject.complete: stops the subject for good.
SubjectComplete == "fired"

\* What a navigation does with the value the afterPreactivation hook
\* returned: of(null) lets it pass at once; a live subject makes it wait for
\* the next value; a stopped subject only ever signals completion.
AwaitHookResult(ret) ==
  IF ret = "noop" THEN "noop"
  ELSE IF gate = "pending" THEN "paused" ELSE "sawComplete"

\* ------------------------------------------------ conditions of the code
\* GateSettled with the callback run at once instead of through p.then
GateSettledAlways == TRUE

\* lines 545-546: p is the LOCATION_INITIALIZED promise, or the resolved
\* Promise.resolve(null) when the token is not provided; p.then runs its
\* callback only once p has settled
GateSettled == locInit # "pending"

\* ShortCircuit with the check of lines 548-550 left out
ShortCircuitNever == FALSE

\* line 548
ShortCircuit == destroyed

\* PreBranch with the 'enabledBlocking' comparison never matching
PreBranchNoBlocking(pol) ==
  IF pol = "disabled" THEN "disabled" ELSE "else"

\* PreBranch with the 'disabled' comparison never matching
PreBranchNoDisabled(pol) ==
  IF pol = "enabledBlocking" THEN "enabledBlocking" ELSE "else"

\* PreBranch with the handler registered for every value but 'disabled'
PreBranchElseBlocking(pol) ==
  IF pol = "disabled" THEN "disabled" ELSE "enabledBlocking"

\* lines 557, 560, 574: which arm of the if / else if / else runs
PreBranch(pol) ==
  IF pol = "disabled" THEN "disabled"
  ELSE IF pol = "enabledBlocking" THEN "enabledBlocking"
  ELSE "else"

\* HandlerDelays without the initNavigation flag
HandlerDelaysAlways == TRUE

\* line 563
HandlerDelays == ~initNavigation

\* HandlerReturn with of(null) returned on the first invocation too
HandlerReturnAlwaysNoop == "noop"

\* HandlerReturn with the subject returned on every invocation
HandlerReturnAlwaysGate == "gate"

\* lines 563-571: what the registered handler returns, the subject ("gate")
\* or of(null) ("noop")
HandlerReturn == IF HandlerDelays THEN "gate" ELSE "noop"

\* IsFirstComponent comparing with any of the components
IsAnyComponent(r) == \E k \in 1..Len(components) : components[k] = r

\* line 589 (the comparison is !==, the listener returns when it holds)
IsFirstComponent(r) == Len(components) > 0 /\ components[1] = r

\* PostStartsNavigation without the "=== undefined" disjunct
PostStartsNavigationNoUndefined(pol) == pol = "enabledNonBlocking"

\* PostStartsNavigation as "anything but the two other policies"
PostStartsNavigationByExclusion(pol) ==
  pol # "disabled" /\ pol # "enabledBlocking"

\* PostStartsNavigation with the policy check left out
PostStartsNavigationAlways(pol) == TRUE

\* line 594
PostStartsNavigation(pol) == pol = "enabledNonBlocking" \/ pol = "undefined"

\* ---------------------------------------------------------- appInitializer
\* line 545 and the registration of the continuation at line 546
AppInitializer(i) ==
  /\ i = PreCalls + 1
  /\ i <= MaxInitCalls
  /\ \E ok \in InjectorGetOutcomes :
       IF ok
       THEN /\ pc' = [pc EXCEPT ![i] = "awaiting"]
            /\ promise' = [promise EXCEPT ![i] = "pending"]
            /\ preLog' = [preLog EXCEPT ![i] = <<"injector.get">>]
       ELSE /\ pc' = [pc EXCEPT ![i] = "done"]
            /\ promise' = [promise EXCEPT ![i] = "threw"]
            /\ preLog' = [preLog EXCEPT ![i] = <<"injector.get", "throw">>]
  /\ UNCHANGED <<policy, locInit, coordinator, engine, components, post,
                 navCalls>>

\* lines 548-550
ContinuationDestroyed(i) ==
  /\ promise' = [promise EXCEPT ![i] = "resolved"]
  /\ preLog' = [preLog EXCEPT ![i] = @ \o <<"returnResolved">>]
  /\ UNCHANGED <<engine, navCalls>>

\* ContinuationDisabled with the error of the router call caught and the
\* promise resolved all the same
ContinuationDisabledSwallows(i) ==
  /\ \E ok \in BOOLEAN :
       IF ok
       THEN /\ locListener' = TRUE
            /\ preLog' = [preLog EXCEPT ![i] = @ \o
                  <<"injector.get", "setUpLocationChangeListener", "resolve">>]
       ELSE /\ preLog' = [preLog EXCEPT ![i] = @ \o
                  <<"injector.get", "setUpLocationChangeListener", "throw",
                    "resolve">>]
            /\ UNCHANGED locListener
  /\ promise' = [promise EXCEPT ![i] = "resolved"]
  /\ UNCHANGED <<hook, nav, navCalls>>

\* lines 554-559
ContinuationDisabled(i) ==
  /\ \E ok \in BOOLEAN :
       IF ok
       THEN /\ locListener' = TRUE
            /\ promise' = [promise EXCEPT ![i] = "resolved"]
            /\ preLog' = [preLog EXCEPT ![i] = @ \o
                  <<"injector.get", "setUpLocationChangeListener", "resolve">>]
       ELSE /\ promise' = [promise EXCEPT ![i] = "rejected"]
            /\ preLog' = [preLog EXCEPT ![i] = @ \o
                  <<"injector.get", "setUpLocationChangeListener", "throw">>]
            /\ UNCHANGED locListener
  /\ UNCHANGED <<hook, nav, navCalls>>

\* ContinuationBlocking with router.initialNavigation() called before the
\* handler is registered
ContinuationBlockingNavigatesFirst(i) ==
  /\ navCalls' = navCalls + 1
  /\ \E ok \in BOOLEAN :
       IF ok
       THEN /\ nav' = RouterInitialNavigation(nav)
            /\ locListener' = TRUE
            /\ hook' = i
            /\ preLog' = [preLog EXCEPT ![i] = @ \o
                  <<"injector.get", "initialNavigation",
                    "setAfterPreactivation">>]
            /\ UNCHANGED promise
       ELSE /\ promise' = [promise EXCEPT ![i] = "rejected"]
            /\ preLog' = [preLog EXCEPT ![i] = @ \o
                  <<"injector.get", "initialNavigation", "throw">>]
            /\ UNCHANGED <<hook, nav, locListener>>

\* ContinuationBlocking with resolve(true) called in the arm itself instead
\* of inside the handler
ContinuationBlockingResolvesAtOnce(i) ==
  /\ navCalls' = navCalls + 1
  /\ hook' = i
  /\ \E ok \in BOOLEAN :
       IF ok
       THEN /\ nav' = RouterInitialNavigation(nav)
            /\ locListener' = TRUE
            /\ promise' = [promise EXCEPT ![i] = "resolved"]
            /\ preLog' = [preLog EXCEPT ![i] = @ \o
                  <<"injector.get", "setAfterPreactivation",
                    "initialNavigation", "resolve">>]
       ELSE /\ promise' = [promise EXCEPT ![i] = "rejected"]
            /\ preLog' = [preLog EXCEPT ![i] = @ \o
                  <<"injector.get", "setAfterPreactivation",
                    "initialNavigation", "throw">>]
            /\ UNCHANGED <<nav, locListener>>

\* lines 554-555, 560-573: the outer promise stays pending, locked to res
ContinuationBlocking(i) ==
  /\ hook' = i
  /\ navCalls' = navCalls + 1
  /\ \E ok \in BOOLEAN :
       IF ok
       THEN /\ nav' = RouterInitialNavigation(nav)
            /\ locListener' = TRUE
            /\ preLog' = [preLog EXCEPT ![i] = @ \o
                  <<"injector.get", "setAfterPreactivation",
                    "initialNavigation">>]
            /\ UNCHANGED promise
       ELSE /\ promise' = [promise EXCEPT ![i] = "rejected"]
            /\ preLog' = [preLog EXCEPT ![i] = @ \o
                  <<"injector.get", "setAfterPreactivation",
                    "initialNavigation", "throw">>]
            /\ UNCHANGED <<nav, locListener>>

\* lines 554-555, 574-576
ContinuationElse(i) ==
  /\ promise' = [promise EXCEPT ![i] = "resolved"]
  /\ preLog' = [preLog EXCEPT ![i] = @ \o <<"injector.get", "resolve">>]
  /\ UNCHANGED <<engine, navCalls>>

\* lines 546-579: the callback given to p.then, run once p has settled
Continuation(i) ==
  /\ pc[i] = "awaiting"
  /\ GateSettled
  /\ pc' = [pc EXCEPT ![i] = "done"]
  /\ IF ShortCircuit THEN ContinuationDestroyed(i)
     ELSE IF PreBranch(policy) = "disabled" THEN ContinuationDisabled(i)
     ELSE IF PreBranch(policy) = "enabledBlocking" THEN ContinuationBlocking(i)
     ELSE ContinuationElse(i)
  /\ UNCHANGED <<policy, locInit, coordinator, components, post>>

\* lines 561-572: the Router calls hooks.afterPreactivation when navigation n
\* has finished pre-activation; by default the hook returns of(undefined)
ReachPreActivation(n) ==
  /\ nav[n] = "started"
  /\ IF hook = 0
     THEN /\ nav' = [nav EXCEPT ![n] = "passed"]
          /\ UNCHANGED <<initNavigation, promise>>
     ELSE /\ nav' = [nav EXCEPT ![n] = AwaitHookResult(HandlerReturn)]
          /\ IF HandlerDelays
             THEN /\ initNavigation' = TRUE
                  /\ promise' = [promise EXCEPT ![hook] =
                                    IF @ = "pending" THEN "resolved" ELSE @]
             ELSE UNCHANGED <<initNavigation, promise>>
  /\ UNCHANGED <<policy, locInit, destroyed, gate, gateEmits, pc, preLog, hook,
                 components, post, navCalls, locListener>>

\* ------------------------------------------------------- bootstrapListener
\* PostOps with router.initialNavigation() moved after the other calls
PostOpsNavigationLast(pol) ==
  <<"setUpPreloading", "init", "resetRootComponentType">>
    \o (IF PostStartsNavigation(pol) THEN <<"initialNavigation">> ELSE <<>>)

\* lines 594-600: the outbound calls before the subject is fired
PostOps(pol) ==
  (IF PostStartsNavigation(pol) THEN <<"initialNavigation">> ELSE <<>>)
    \o <<"setUpPreloading", "init", "resetRootComponentType">>

\* BootstrapListener with lines 601-602 in a finally block: the subject is
\* fired even when an outbound call threw
BootstrapListenerFiresAnyway(r) ==
  /\ postRuns < MaxPostCalls
  /\ postRuns' = postRuns + 1
  /\ firstRuns' = firstRuns + (IF IsFirstRoot(r) THEN 1 ELSE 0)
  /\ \E ok \in InjectorGetOutcomes :
       IF ~ok
       THEN /\ lastPost' = [root |-> r, emitted |-> FALSE,
                             ops |-> <<"injector.get", "throw">>]
            /\ UNCHANGED <<gate, gateEmits, nav, locListener, navCalls>>
       ELSE IF ~IsFirstComponent(r)
       THEN /\ lastPost' = [root |-> r, emitted |-> FALSE,
                             ops |-> <<"injector.get", "return">>]
            /\ UNCHANGED <<gate, gateEmits, nav, locListener, navCalls>>
       ELSE \E f \in 0..Len(PostOps(policy)) :
         LET ops == PostOps(policy)
             called == ops[1] = "initialNavigation"
             navigated == called /\ f # 1
             navs == IF navigated THEN RouterInitialNavigation(nav) ELSE nav
         IN  /\ navCalls' = navCalls + (IF called THEN 1 ELSE 0)
             /\ locListener' = (locListener \/ navigated)
             /\ nav' = SubjectNextNavs(navs)
             /\ gateEmits' = SubjectNextEmits
             /\ gate' = SubjectComplete
             /\ lastPost' =
                  [root |-> r, emitted |-> gateEmits' > gateEmits,
                   ops |-> IF f = 0
                           THEN <<"injector.get">> \o ops
                                  \o <<"next", "complete">>
                           ELSE <<"injector.get">> \o SubSeq(ops, 1, f)
                                  \o <<"throw">>]
  /\ UNCHANGED <<policy, locInit, initNavigation, destroyed, pc, promise,
                 preLog, hook, components>>

\* lines 582-603; f is the outbound call that throws, 0 when none does
BootstrapListener(r) ==
  /\ postRuns < MaxPostCalls
  /\ postRuns' = postRuns + 1
  /\ firstRuns' = firstRuns + (IF IsFirstRoot(r) THEN 1 ELSE 0)
  /\ \E ok \in InjectorGetOutcomes :
       IF ~ok
       THEN /\ lastPost' = [root |-> r, emitted |-> FALSE,
                             ops |-> <<"injector.get", "throw">>]
            /\ UNCHANGED <<gate, gateEmits, nav, locListener, navCalls>>
       ELSE IF ~IsFirstComponent(r)
       THEN /\ lastPost' = [root |-> r, emitted |-> FALSE,
                             ops |-> <<"injector.get", "return">>]
            /\ UNCHANGED <<gate, gateEmits, nav, locListener, navCalls>>
       ELSE \E f \in 0..Len(PostOps(policy)) :
         LET ops == PostOps(policy)
             called == ops[1] = "initialNavigation"
             navigated == called /\ f # 1
             navs == IF navigated THEN RouterInitialNavigation(nav) ELSE nav
         IN  /\ navCalls' = navCalls + (IF called THEN 1 ELSE 0)
             /\ locListener' = (locListener \/ navigated)
             /\ IF f = 0
                THEN /\ nav' = SubjectNextNavs(navs)
                     /\ gateEmits' = SubjectNextEmits
                     /\ gate' = SubjectComplete
                     /\ lastPost' =
                          [root |-> r, emitted |-> gateEmits' > gateEmits,
                           ops |-> <<"injector.get">> \o ops
                                     \o <<"next", "complete">>]
                ELSE /\ nav' = navs
                     /\ lastPost' =
                          [root |-> r, emitted |-> FALSE,
                           ops |-> <<"injector.get">> \o SubSeq(ops, 1, f)
                                     \o <<"throw">>]
                     /\ UNCHANGED <<gate, gateEmits>>
  /\ UNCHANGED <<policy, locInit, initNavigation, destroyed, pc, promise,
                 preLog, hook, components>>

\* NgOnDestroy with the subject completed as part of the teardown
NgOnDestroyCompletes ==
  /\ ~destroyed
  /\ destroyed' = TRUE
  /\ gate' = "fired"
  /\ nav' = [n \in NavIds |-> IF nav[n] = "paused" THEN "released" ELSE nav[n]]
  /\ UNCHANGED <<policy, locInit, initNavigation, gateEmits, pc, promise,
                 preLog, hook, locListener, components, post, navCalls>>

\* lines 605-607
NgOnDestroy ==
  /\ ~destroyed
  /\ destroyed' = TRUE
  /\ UNCHANGED <<policy, locInit, initNavigation, gate, gateEmits, pc, promise,
                 preLog, engine, components, post, navCalls>>

\* ------------------------------------------------------ the host platform
\* the platform resolves the LOCATION_INITIALIZED promise
LocationInitialized ==
  /\ locInit = "pending"
  /\ locInit' = "settled"
  /\ UNCHANGED <<policy, coordinator, pc, promise, preLog, engine,
                 components, post, navCalls>>

\* ApplicationRef adds a bootstrapped root component to its components
ComposeRoot ==
  /\ Len(components) < MaxRoots
  /\ components' = Append(components, Len(components) + 1)
  /\ UNCHANGED <<policy, locInit, coordinator, pc, promise, preLog, engine,
                 post, navCalls>>

\* a navigation the coordinator did not ask for (router.navigate, popstate)
ExternalNavigation ==
  /\ NavigationId < MaxNavs
  /\ nav' = [nav EXCEPT ![NavigationId + 1] = "started"]
  /\ UNCHANGED <<policy, locInit, coordinator, pc, promise, preLog, hook,
                 locListener, components, post, navCalls>>

Next ==
  \/ \E i \in InitIds : AppInitializer(i)
  \/ \E i \in InitIds : Continuation(i)
  \/ \E n \in NavIds : ReachPreActivation(n)
  \/ \E r \in Roots : BootstrapListener(r)
  \/ NgOnDestroy
  \/ LocationInitialized
  \/ ComposeRoot
  \/ ExternalNavigation

Spec == Init /\ [][Next]_vars

\* ------------------------------------------ a host that awaits initializers
\* the platform bootstraps the root components only after the promise of
\* every appInitializer call it made has resolved
HostReady ==
  /\ PreCalls >= 1
  /\ \A i \in InitIds : pc[i] # "idle" => promise[i] = "resolved"

\* bootstrapListener as such a host invokes it
HostBootstraps(r) == HostReady /\ BootstrapListener(r)

NextOrdered ==
  \/ \E i \in InitIds : AppInitializer(i)
  \/ \E i \in InitIds : Continuation(i)
  \/ \E n \in NavIds : ReachPreActivation(n)
  \/ \E r \in Roots : HostBootstraps(r)
  \/ NgOnDestroy
  \/ LocationInitialized
  \/ ComposeRoot
  \/ ExternalNavigation

SpecOrdered == Init /\ [][NextOrdered]_vars

TypeOK ==
  /\ policy \in Policies
  /\ locInit \in {"absent", "pending", "settled"}
  /\ initNavigation \in BOOLEAN
  /\ destroyed \in BOOLEAN
  /\ gate \in {"pending", "fired"}
  /\ gateEmits \in 0..MaxPostCalls
  /\ pc \in [InitIds -> {"idle", "awaiting", "done"}]
  /\ promise \in [InitIds -> {"none", "pending", "resolved", "rejected", "threw"}]
  /\ hook \in {0} \cup InitIds
  /\ nav \in [NavIds -> {"none", "started", "passed", "noop", "paused", "released",
                         "sawComplete"}]
  /\ locListener \in BOOLEAN
  /\ Len(components) <= MaxRoots
  /\ postRuns \in 0..MaxPostCalls
  /\ firstRuns \in 0..postRuns
  /\ lastPost.root \in {0} \cup Roots
  /\ navCalls \in 0..(MaxInitCalls + MaxPostCalls)

\* ================================================================ claims
\* position of the first op in s, 0 when absent
IndexOf(op, s) ==
  IF \E k \in 1..Len(s) : s[k] = op
  THEN CHOOSE k \in 1..Len(s) : s[k] = op /\ \A j \in 1..(k - 1) : s[j] # op
  ELSE 0

Has(op, s) == IndexOf(op, s) > 0

NonBlocking == policy \in {"enabledNonBlocking", "undefined"}
Blocking == policy = "enabledBlocking"
Disabled == policy = "disabled"

\* the host calls appInitializer once and bootstrapListener once per root it
\* composed (so at most once with components[0])
HostOnce == PreCalls <= 1 /\ firstRuns <= 1

\* the continuation of call i has run (the call did not throw at line 545)
ContinuationRan(i) == pc[i] = "done" /\ promise[i] # "threw"

\* the continuation of call i took the early return of lines 548-550
ShortCircuited(i) == Has("returnResolved", preLog[i])

\* navigations the handler gave the subject to
GateStatuses == {"paused", "released", "sawComplete"}
HandedGate == {n \in NavIds : nav[n] \in GateStatuses}

\* C1: with initialNavigation 'enabledNonBlocking' or unset, and a host that
\* calls appInitializer once and bootstrapListener once per root: the
\* continuation of appInitializer resolves the promise without calling
\* router.initialNavigation, and router.initialNavigation is called exactly
\* once, by the bootstrapListener run for the first root: never before it, and
\* once it has run (its lookups having succeeded) exactly one call was made.
C1_NonBlocking ==
  (NonBlocking /\ HostOnce) =>
    /\ \A i \in InitIds :
         /\ ~Has("initialNavigation", preLog[i])
         /\ ContinuationRan(i) => promise[i] = "resolved"
    /\ navCalls <= 1
    /\ navCalls = 1 => firstRuns = 1
    /\ (firstRuns = 1 /\ ~destroyed) => navCalls = 1

C1_Witness ==
  /\ NonBlocking /\ HostOnce
  /\ promise[1] = "resolved" /\ ~ShortCircuited(1)
  /\ firstRuns = 1 /\ navCalls = 1

\* a resolved promise that did not come from the early return of lines
\* 548-550 means the registered handler has been invoked
C2_ResolvedOnlyByHandler ==
  Blocking =>
    \A i \in InitIds :
      (promise[i] = "resolved" /\ ~ShortCircuited(i)) =>
        (initNavigation /\ HandedGate # {})

\* the step in which the handler is invoked for the first time resolves the
\* pending promise of the call that registered it
C2_FirstInvocationResolves ==
  Blocking =>
    \A i \in InitIds :
      (hook = i /\ ~initNavigation /\ initNavigation' /\ promise[i] = "pending")
        => promise'[i] = "resolved"

\* C2: with 'enabledBlocking', a promise of appInitializer that did not take
\* the destroyed early return is resolved only once the registered handler has
\* been invoked, and the first invocation of the handler resolves the promise
\* of the call that registered it if it is still pending; so while no
\* navigation has reached the handler the promise is not resolved.
C2_Blocking == []C2_ResolvedOnlyByHandler /\ [][C2_FirstInvocationResolves]_vars

C2_Witness ==
  /\ Blocking
  /\ promise[1] = "resolved" /\ ~ShortCircuited(1)
  /\ initNavigation /\ nav[1] = "paused"

\* C3: with 'enabledBlocking', the first navigation to reach the handler is
\* given the subject, and it goes on past pre-activation only when the subject
\* has emitted: while the subject is pending that navigation is paused, whether
\* or not the promise of appInitializer is resolved.
C3_PausedUntilFired ==
  Blocking =>
    /\ initNavigation <=> HandedGate # {}
    /\ \A n \in NavIds : nav[n] = "released" => gate = "fired"
    /\ gate = "pending" => \A n \in HandedGate : nav[n] = "paused"

C3_Witness ==
  /\ Blocking
  /\ promise[1] = "resolved" /\ ~ShortCircuited(1)
  /\ gate = "pending" /\ nav[1] = "paused" /\ postRuns = 0

\* C4: with 'disabled', the continuation of appInitializer calls
\* router.setUpLocationChangeListener before it resolves the promise, and
\* router.initialNavigation is never called, whatever appInitializer,
\* bootstrapListener and ngOnDestroy calls are made.
C4_Disabled ==
  Disabled =>
    /\ navCalls = 0
    /\ \A i \in InitIds :
         /\ ~Has("initialNavigation", preLog[i])
         /\ (promise[i] = "resolved" /\ ~ShortCircuited(i)) =>
              /\ Has("setUpLocationChangeListener", preLog[i])
              /\ IndexOf("setUpLocationChangeListener", preLog[i])
                   < IndexOf("resolve", preLog[i])
    /\ ~Has("initialNavigation", lastPost.ops)

C4_Witness ==
  /\ Disabled
  /\ promise[1] = "resolved"
  /\ Has("setUpLocationChangeListener", preLog[1])
  /\ Has("complete", lastPost.ops)
  /\ destroyed

\* a value of initialNavigation outside the type and not undefined
Unrecognized == policy \notin (RecognizedPolicies \cup {"undefined"})

C6_NoneRunWhilePending ==
  locInit = "pending" => \A i \in InitIds : ~ContinuationRan(i)

\* destroyed is never reset, and a continuation that finds it set resolves the
\* promise and leaves the router (listener, hook, navigations) untouched
C6_ShortCircuitStep ==
  /\ destroyed => destroyed'
  /\ \A i \in InitIds :
       (pc[i] = "awaiting" /\ destroyed /\ pc'[i] = "done") =>
         /\ promise'[i] = "resolved"
         /\ preLog'[i] = preLog[i] \o <<"returnResolved">>
         /\ UNCHANGED <<hook, nav, locListener, navCalls>>

\* C6: if ngOnDestroy runs before the LOCATION_INITIALIZED promise settles,
\* then whatever the policy the continuation resolves the promise and calls
\* nothing on the router: the continuation runs only after that promise has
\* settled, destroyed is still set then, and a continuation that finds
\* destroyed set takes the early return.
C6_DestroyedFirst == []C6_NoneRunWhilePending /\ [][C6_ShortCircuitStep]_vars

C6_Witness ==
  /\ Blocking /\ destroyed /\ locInit = "settled"
  /\ preLog[1] = <<"injector.get", "returnResolved">>
  /\ promise[1] = "resolved"
  /\ hook = 0 /\ navCalls = 0 /\ ~locListener

\* the outbound calls of lines 595-602
SideEffectOps ==
  {"initialNavigation", "setUpPreloading", "init", "resetRootComponentType",
   "next", "complete"}

C7_NotFirstRootStep ==
  (postRuns' = postRuns + 1 /\ ~IsFirstRoot(lastPost'.root)) =>
    /\ \A op \in SideEffectOps : ~Has(op, lastPost'.ops)
    /\ UNCHANGED <<initNavigation, destroyed, gate, gateEmits, hook, nav,
                   locListener, navCalls, promise>>

\* C7: a bootstrapListener run whose component is not the first root the host
\* composed calls none of initialNavigation, setUpPreloading, init,
\* resetRootComponentType, next and complete, and changes neither the
\* coordinator's fields nor the router.
C7_NotFirstRoot == [][C7_NotFirstRootStep]_vars

C7_Witness ==
  /\ NonBlocking
  /\ Len(components) = 2 /\ lastPost.root = 2
  /\ lastPost.ops = <<"injector.get", "return">>
  /\ firstRuns = 1 /\ postRuns = 2 /\ navCalls = 1 /\ gateEmits = 1

\* C8: resultOfPreactivationDone emits once at most and, having emitted, is
\* stopped for good: it is "fired" exactly when it has emitted once, however
\* many bootstrapListener runs are made, those for the first root included,
\* and only its one emission releases a navigation.
C8_FiresOnce ==
  /\ gateEmits <= 1
  /\ gate = "fired" <=> gateEmits = 1
  /\ \A n \in NavIds : nav[n] = "released" => gateEmits = 1
  /\ lastPost.emitted => gateEmits = 1

C8_Witness ==
  /\ firstRuns = 2 /\ IsFirstRoot(lastPost.root)
  /\ Has("next", lastPost.ops) /\ ~lastPost.emitted
  /\ gate = "fired" /\ gateEmits = 1

\* C9: with 'enabledBlocking', the handler gives the subject to one navigation
\* at most, the first to invoke it; every later invocation gets of(null), so
\* that navigation is not paused, whether the subject has fired or not.
C9_OnlyFirstPaused ==
  Blocking =>
    /\ Cardinality(HandedGate) <= 1
    /\ \A n \in NavIds : nav[n] = "noop" => (initNavigation /\ HandedGate # {})

C9_Witness ==
  /\ Blocking
  /\ gate = "pending"
  /\ nav[1] = "paused" /\ nav[2] = "noop"

\* C10: a host that calls appInitializer once and bootstrapListener once per
\* root sees router.initialNavigation called at most once, under every policy
\* and every interleaving with ngOnDestroy.
C10_AtMostOnce == HostOnce => navCalls <= 1

C10_Witness ==
  /\ Blocking /\ HostOnce /\ destroyed
  /\ PreCalls = 1 /\ firstRuns = 1 /\ Has("complete", lastPost.ops)
  /\ navCalls = 1

\* number of injector.get calls in a log
Lookups(s) == Cardinality({k \in 1..Len(s) : s[k] = "injector.get"})

\* C11 as the specification states it: once destroyed is set no injector.get
\* is made, neither by an appInitializer call started or continued afterwards
\* nor by a bootstrapListener run made afterwards.
C11_NoLookupStep ==
  destroyed =>
    /\ \A i \in InitIds : Lookups(preLog'[i]) = Lookups(preLog[i])
    /\ postRuns' = postRuns + 1 => ~Has("injector.get", lastPost'.ops)

C11_NoLookupAfterDestroy == [][C11_NoLookupStep]_vars

\* what the code does once destroyed is set: a continuation still awaited
\* makes no lookup, while a new appInitializer call makes the lookup of line
\* 545 and a bootstrapListener run those of lines 583-587
C11_GuardedStep ==
  destroyed =>
    /\ \A i \in InitIds :
         /\ (pc[i] = "awaiting" /\ pc'[i] = "done") =>
              Lookups(preLog'[i]) = Lookups(preLog[i])
         /\ (pc[i] = "idle" /\ pc'[i] # "idle") =>
              Lookups(preLog'[i]) = 1
    /\ postRuns' = postRuns + 1 => lastPost'.ops[1] = "injector.get"

\* C11, amended: once destroyed is set, an appInitializer continuation that
\* runs afterwards makes no injector.get; an appInitializer call started
\* afterwards and a bootstrapListener run made afterwards still make theirs.
C11_OnlyContinuationGuarded == [][C11_GuardedStep]_vars

C11_Witness ==
  /\ destroyed
  /\ preLog[1] = <<"injector.get", "returnResolved">>
  /\ lastPost.ops = <<"injector.get", "throw">>

\* the policy actions the continuation of call i has executed, read off the
\* calls it made: the listener install of line 558, the handler registration
\* of line 561, the bare resolve of line 575
ArmsTaken(i) ==
  (IF Has("setUpLocationChangeListener", preLog[i]) THEN {"disabled"} ELSE {})
  \cup (IF Has("setAfterPreactivation", preLog[i]) THEN {"blocking"} ELSE {})
  \cup (IF /\ Has("resolve", preLog[i])
           /\ ~Has("setUpLocationChangeListener", preLog[i])
        THEN {"nonBlocking"} ELSE {})

\* the policy action the value of initialNavigation selects
ArmOf(pol) ==
  IF pol = "disabled" THEN "disabled"
  ELSE IF pol = "enabledBlocking" THEN "blocking"
  ELSE "nonBlocking"

\* C12 as the specification states it: a coordinator whose appInitializer
\* continuation has run has executed exactly one of the three policy actions,
\* never none.
C12_ExactlyOne ==
  \A i \in InitIds : ContinuationRan(i) => Cardinality(ArmsTaken(i)) = 1

\* C12, amended: a continuation of appInitializer executes at most one of the
\* three policy actions: none when it finds destroyed set, and otherwise
\* exactly the one the policy selects (any value other than 'disabled' and
\* 'enabledBlocking' selects the bare resolve).
C12_OneUnlessDestroyed ==
  \A i \in InitIds :
    /\ Cardinality(ArmsTaken(i)) <= 1
    /\ ContinuationRan(i) =>
         ArmsTaken(i) = (IF ShortCircuited(i) THEN {} ELSE {ArmOf(policy)})
    /\ ~ContinuationRan(i) => ArmsTaken(i) = {}

C12_Witness ==
  /\ Blocking
  /\ ContinuationRan(1) /\ ~ShortCircuited(1)
  /\ ArmsTaken(1) = {"blocking"}
  /\ promise[1] = "resolved"

\* ---------------------------------------------------------------- C13
\* C13: once resultOfPreactivationDone has emitted it is completed for good:
\* no navigation is left waiting on it, and a navigation that is handed the
\* subject only afterwards observed its completion instead of being paused.
C13_StaysCompleted ==
  /\ gateEmits >= 1 =>
       /\ gate = "fired"
       /\ \A n \in NavIds : nav[n] # "paused"
  /\ \A n \in NavIds : nav[n] = "sawComplete" => gate = "fired"

C13_Witness ==
  /\ gate = "fired"
  /\ gateEmits = 1
  /\ \E n \in NavIds : nav[n] = "sawComplete"

\* ---------------------------------------------------------------- C14
\* the last call a run made before it stopped on an error
ThrewAt(s) == IF Has("throw", s) /\ IndexOf("throw", s) > 1
              THEN s[IndexOf("throw", s) - 1] ELSE "none"

\* C14: an error of a Router call is never swallowed: a continuation in
\* which setUpLocationChangeListener or initialNavigation threw leaves its
\* promise rejected (a later handler invocation does not resolve it) and
\* made no call after the failing one, and a bootstrapListener run in which
\* initialNavigation threw ends on that error, with nothing called after it
\* and the subject not fired by that run.
C14_ErrorsPropagate ==
  /\ \A i \in InitIds :
       ThrewAt(preLog[i]) \in {"setUpLocationChangeListener",
                               "initialNavigation"} =>
         /\ promise[i] = "rejected"
         /\ IndexOf("throw", preLog[i]) = Len(preLog[i])
  /\ ThrewAt(lastPost.ops) = "initialNavigation" =>
       /\ IndexOf("throw", lastPost.ops) = Len(lastPost.ops)
       /\ ~Has("next", lastPost.ops)
       /\ ~lastPost.emitted

C14_Witness ==
  /\ Blocking
  /\ ThrewAt(preLog[1]) = "initialNavigation"
  /\ promise[1] = "rejected"
  /\ initNavigation

\* ---------------------------------------------------------------- C15
C15_ReleasedStep ==
  Blocking =>
    \A n \in NavIds :
      ( /\ nav[n] = "paused"
        /\ postRuns' = postRuns + 1
        /\ IsFirstRoot(lastPost'.root)
        /\ ~Has("throw", lastPost'.ops) ) =>
      /\ gate' = "fired"
      /\ nav'[n] = "released"

\* C15: under 'enabledBlocking', a bootstrapListener run for the first root
\* component in which no call throws fires the subject, and every navigation
\* paused on it resumes (the subject delivers to its subscriber within the
\* next() call).
C15_PausedReleased == [][C15_ReleasedStep]_vars

C15_Witness ==
  /\ Blocking
  /\ gate = "fired"
  /\ promise[1] = "resolved"
  /\ \E n \in NavIds : nav[n] = "released"
  /\ Has("complete", lastPost.ops)

\* ---------------------------------------------------------------- C16
\* C16: under 'disabled' and under 'enabledNonBlocking' / undefined no
\* handler is ever registered, and a continuation that ran has settled its
\* promise by itself: resolved unless setUpLocationChangeListener threw, so
\* never left pending for a Router event.
C16_ResolvesInContinuation ==
  (Disabled \/ NonBlocking) =>
    /\ hook = 0
    /\ \A i \in InitIds :
         /\ ~Has("setAfterPreactivation", preLog[i])
         /\ ContinuationRan(i) =>
              /\ promise[i] # "pending"
              /\ ~Has("throw", preLog[i]) => promise[i] = "resolved"

C16_Witness ==
  /\ NonBlocking
  /\ ContinuationRan(1) /\ ~ShortCircuited(1)
  /\ promise[1] = "resolved"
  /\ \A n \in NavIds : nav[n] = "none"
  /\ navCalls = 0

\* ---------------------------------------------------------------- C17
\* C17: while LOCATION_INITIALIZED is provided and has not settled,
\* appInitializer has done nothing but its first lookup: no Router call, no
\* lookup of the configuration, no handler, and its promise is not resolved;
\* once it has settled, or when the token is not provided, the continuation
\* of a waiting call can run.
C17_WaitsForLocation ==
  /\ locInit = "pending" =>
       /\ hook = 0
       /\ \A i \in InitIds :
            /\ pc[i] # "done" \/ promise[i] = "threw"
            /\ Lookups(preLog[i]) <= 1
            /\ \A k \in 1..Len(preLog[i]) :
                 preLog[i][k] \in {"injector.get", "throw"}
            /\ promise[i] \in {"none", "pending", "threw"}
  /\ \A i \in InitIds :
       (locInit # "pending" /\ pc[i] = "awaiting") => ENABLED Continuation(i)

C17_Witness ==
  /\ locInit = "pending"
  /\ pc[1] = "awaiting"
  /\ promise[1] = "pending"
  /\ gate = "fired"

\* the token is not provided and the continuation ran all the same
C17_AbsentWitness ==
  /\ locInit = "absent"
  /\ ContinuationRan(1) /\ ~ShortCircuited(1)

\* ---------------------------------------------------------------- C18
C18_RegisteredFirst ==
  Blocking =>
    /\ \A i \in InitIds :
         Has("initialNavigation", preLog[i]) =>
           /\ Has("setAfterPreactivation", preLog[i])
           /\ IndexOf("setAfterPreactivation", preLog[i])
                < IndexOf("initialNavigation", preLog[i])
    /\ navCalls >= 1 => hook # 0

C18_FirstEventStep ==
  (Blocking /\ navCalls >= 1) =>
    \A n \in NavIds :
      (nav[n] = "started" /\ nav'[n] # "started") =>
        IF ~initNavigation
        THEN initNavigation' /\ nav'[n] \in {"paused", "sawComplete"}
        ELSE initNavigation' /\ nav'[n] = "noop"

\* C18: under 'enabledBlocking' the handler is registered before
\* initialNavigation is called, so from that call on every navigation that
\* reaches pre-activation goes through the handler: the first such event
\* sets initNavigation and is handed the subject, every later one is not.
C18_HandlerBeforeNavigation ==
  []C18_RegisteredFirst /\ [][C18_FirstEventStep]_vars

C18_Witness ==
  /\ Blocking
  /\ preLog[1] = <<"injector.get", "injector.get", "setAfterPreactivation",
                   "initialNavigation">>
  /\ nav[1] = "paused"
  /\ nav[2] = "noop"

\* ---------------------------------------------------------------- C19
\* the calls of a complete run for the first root component, in order
FullRun(pol) ==
  <<"injector.get">>
    \o (IF pol \in {"enabledNonBlocking", "undefined"}
        THEN <<"initialNavigation">> ELSE <<>>)
    \o <<"setUpPreloading", "init", "resetRootComponentType",
         "next", "complete">>

C19_OrderStep ==
  (postRuns' = postRuns + 1 /\ IsFirstRoot(lastPost'.root)) =>
    LET ops == lastPost'.ops
    IN  IF Has("throw", ops)
        THEN ops = SubSeq(FullRun(policy), 1, Len(ops) - 1) \o <<"throw">>
        ELSE /\ ops = FullRun(policy)
             /\ gate' = "fired"

\* C19: under every value of initialNavigation, a bootstrapListener run for
\* the first root component calls setUpPreloading, init and
\* resetRootComponentType and then fires the subject, in that order and
\* after the initialNavigation call of the same run if there is one; a run
\* cut short by a throwing call made its calls in that same order.
C19_PostOrder == [][C19_OrderStep]_vars

C19_Witness ==
  /\ Disabled
  /\ IsFirstRoot(lastPost.root)
  /\ lastPost.ops = <<"injector.get", "setUpPreloading", "init",
                      "resetRootComponentType", "next", "complete">>
  /\ lastPost.emitted

\* ---------------------------------------------------------------- C20
\* C20: over the whole life of the RouterInitializer, whatever the number
\* of navigations and of appInitializer / bootstrapListener calls, the
\* handler hands resultOfPreactivationDone to at most one navigation, and
\* only after setting initNavigation.
C20_GateHandedOnce ==
  /\ Cardinality(HandedGate) <= 1
  /\ HandedGate # {} => (initNavigation /\ hook # 0)
  /\ ~initNavigation => \A n \in NavIds : nav[n] \in {"none", "started", "passed"}

C20_Witness ==
  /\ gate = "fired"
  /\ nav[1] = "released"
  /\ nav[2] = "noop"

\* ---------------------------------------------------------------- C21
\* C21: under 'enabledBlocking', with a host that runs bootstrapListener
\* only after the appInitializer promise has resolved, whenever the subject
\* is fired and a handler is registered initNavigation is already true, and
\* no navigation is ever handed an already completed subject.
C21_GateAfterHandler ==
  Blocking =>
    /\ (gate = "fired" /\ hook # 0) => initNavigation
    /\ \A n \in NavIds : nav[n] # "sawComplete"
    /\ postRuns >= 1 => \E i \in InitIds : promise[i] = "resolved"

C21_Witness ==
  /\ Blocking
  /\ gate = "fired"
  /\ hook # 0
  /\ initNavigation
  /\ \E n \in NavIds : nav[n] = "released"
  /\ ~destroyed

\* ---------------------------------------------------------------- C22
PostCalls == {"initialNavigation", "setUpPreloading", "init",
              "resetRootComponentType"}

C22_ThrowStep ==
  (postRuns' = postRuns + 1 /\ ThrewAt(lastPost'.ops) \in PostCalls) =>
    /\ IndexOf("throw", lastPost'.ops) = Len(lastPost'.ops)
    /\ ~Has("next", lastPost'.ops) /\ ~Has("complete", lastPost'.ops)
    /\ UNCHANGED <<gate, gateEmits>>
    /\ \A n \in NavIds : nav[n] = "paused" => nav'[n] = "paused"

\* C22: a bootstrapListener run for the first root component in which
\* initialNavigation, setUpPreloading, init or resetRootComponentType throws
\* makes no call after the failing one and leaves the subject as it was, so
\* a navigation paused on it stays paused; only a later run that completes
\* releases it.
C22_ThrowLeavesGate == [][C22_ThrowStep]_vars

C22_Witness ==
  /\ Blocking
  /\ ThrewAt(lastPost.ops) = "setUpPreloading"
  /\ gate = "pending"
  /\ firstRuns >= 1
  /\ \E n \in NavIds : nav[n] = "paused"

\* ---------------------------------------------------------------- C23
C23_DestroyStep ==
  destroyed' # destroyed =>
    /\ destroyed'
    /\ UNCHANGED <<policy, locInit, initNavigation, gate, gateEmits, pc,
                   promise, preLog, hook, nav, locListener, components,
                   lastPost, postRuns, firstRuns, navCalls>>

\* C23: ngOnDestroy sets destroyed and changes nothing else: the subject
\* is not fired, no promise is settled, the handler stays registered and
\* initNavigation keeps its value, so teardown releases neither a paused
\* navigation nor a promise waiting for the first pre-activation.
C23_OnlyDestroyed == [][C23_DestroyStep]_vars

C23_Witness ==
  /\ Blocking
  /\ destroyed
  /\ hook # 0
  /\ gate = "pending"
  /\ postRuns = 0
  /\ \E n \in NavIds : nav[n] = "paused"

====
